---- MODULE Spec2Model ----
(***************************************************************************)
(* Distributed payment system: the consistent-hash ring and the Redis      *)
(* lock decorator of app/common/utils/distributed.py, and the transaction  *)
(* processor of app/transaction_service/main.py with the account service   *)
(* it calls over HTTP, and the Kafka client of                              *)
(* app/common/utils/kafka_client.py.                                        *)
(***************************************************************************)
EXTENDS Integers, Sequences, FiniteSets, TLC

VARIABLES
    now,            \* time.time(), in seconds
    redis,          \* the shared Redis store: lock key -> [value, exp, by]
    wpc,            \* position of each caller of a distributed_lock wrapper
    lock_key,       \* wrapper local, per caller
    lock_value,     \* wrapper local, per caller
    current_value,  \* wrapper local, per caller
    outcome,        \* how each caller's last wrapper call ended
    consistent_hash, \* per node: the global ConsistentHashing object
    ring_ops,       \* add_node/remove_node calls made after start-up
    transactions,   \* the transactions table: id -> row
    accounts,       \* the accounts table: id -> [balance, status]
    topic,          \* the messages of the "transactions" topic, in order
    offset,         \* per node: its consumer group's position in the topic
    pc,             \* per node: position of process_transaction_message
    txn,            \* per node: the transaction_id of the message in hand
    response,       \* per node: the account service's last answer
    calls,          \* per node: the ledger calls of the delivery in hand
    applied,        \* per transaction: balance updates the ledger applied
    events,         \* the messages of the "transaction_events" topic
    log,            \* per node: how the last delivery ended
    hash_ring,      \* a ConsistentHashing object whose membership changes
    ring_before,    \* that object before its last add_node or remove_node
    last_op,        \* the last add_node or remove_node made on it
    result,         \* the last get_node made on it: the key and the answer
    kafka_client,   \* per node: the global KafkaClient object
    consumer_thread \* the consumer thread of one client and what it delivered

lockVars == <<wpc, lock_key, lock_value, current_value, outcome>>

txnVars == <<consistent_hash, ring_ops, transactions, accounts, topic, offset,
             pc, txn, response, calls, applied, events, log>>

ringVars == <<hash_ring, ring_before, last_op, result>>

kafkaVars == <<kafka_client, consumer_thread>>

vars == <<now, redis, wpc, lock_key, lock_value, current_value, outcome,
          consistent_hash, ring_ops, transactions, accounts, topic, offset,
          pc, txn, response, calls, applied, events, log,
          hash_ring, ring_before, last_op, result, kafka_client,
          consumer_thread>>

----------------------------------------------------------------------------
(* Bounds of the model *)

\* the clock stops here
MaxTime == 15
\* seconds between two observations of the clock
TickStep == 5
\* ring points per node (the program's default is 100)
replicas == 2
\* ring positions: _hash maps into 0..HashSpace-1
HashSpace == 16
\* add_node/remove_node calls after start-up
MaxRingOps == 1
\* messages of the topic the consumer thread reads
MaxMessages == 3
\* consumers the consumer thread creates, the first one included
MaxConsumers == 2

----------------------------------------------------------------------------
(* Program constants *)

\* distributed_lock(key_prefix, lock_timeout = 10)
lock_timeout == 10

\* @distributed_lock(key_prefix="account_lock")
key_prefix == "account_lock"

Accounts == {"A", "B"}

\* the callers of a decorated function, and the NODE_ID of the process of each
Callers == {"c1", "c2"}

\* NODE_ID: both callers run in processes of the same node
CallerNode(c) == "node1"

NoValue == <<>>

----------------------------------------------------------------------------
(* Redis: SET key value NX EX ttl, GET key, DEL key.  A key whose expiry   *)
(* time has passed does not exist.                                          *)

redis_exists(store, key, t) == key \in DOMAIN store /\ t < store[key].exp

\* the mutant: the binding is stored without a time to live
redis_put_no_ttl(store, key, value, ex, t, by) ==
    [k \in DOMAIN store \cup {key} |->
        IF k = key THEN [value |-> value, exp |-> t + ex + 1000, by |-> by] ELSE store[k]]

redis_put(store, key, value, ex, t, by) ==
    [k \in DOMAIN store \cup {key} |->
        IF k = key THEN [value |-> value, exp |-> t + ex, by |-> by]
        ELSE store[k]]

\* the mutant: SET without NX
redis_set_always(store, key, value, ex, t, by) ==
    [ok |-> TRUE, store |-> redis_put(store, key, value, ex, t, by)]

redis_set_nx(store, key, value, ex, t, by) ==
    IF redis_exists(store, key, t)
    THEN [ok |-> FALSE, store |-> store]
    ELSE [ok |-> TRUE, store |-> redis_put(store, key, value, ex, t, by)]

redis_get(store, key, t) ==
    IF redis_exists(store, key, t) THEN store[key].value ELSE NoValue

redis_delete(store, key) == [k \in DOMAIN store \ {key} |-> store[k]]

\* the keys Redis has expired at time t are gone
redis_expire(store, t) ==
    [k \in {j \in DOMAIN store : t < store[j].exp} |-> store[k]]

----------------------------------------------------------------------------
(* distributed_lock.wrapper *)

\* lines 95-100: the resource id, the key and the caller's token
WrapperEnter(c, resource_id) ==
    /\ wpc[c] = "idle"
    /\ IF resource_id = ""
       THEN /\ outcome' = [outcome EXCEPT ![c] = "value_error"]
            /\ UNCHANGED <<wpc, lock_key, lock_value>>
       ELSE /\ lock_key' = [lock_key EXCEPT ![c] = <<key_prefix, resource_id>>]
            /\ lock_value' = [lock_value EXCEPT ![c] = <<CallerNode(c), now>>]
            /\ wpc' = [wpc EXCEPT ![c] = "set"]
            /\ outcome' = [outcome EXCEPT ![c] = "none"]
    /\ UNCHANGED <<now, redis, current_value>>

\* the mutant: the guarded function is entered whatever SET NX answers
WrapperSet_proceeds(c) ==
    /\ wpc[c] = "set"
    /\ LET r == redis_set_nx(redis, lock_key[c], lock_value[c], lock_timeout, now, c)
       IN  redis' = r.store
    /\ wpc' = [wpc EXCEPT ![c] = "func"]
    /\ UNCHANGED <<now, lock_key, lock_value, current_value, outcome>>

\* lines 101-105: one SET NX EX; on failure the wrapper raises
WrapperSet(c) ==
    /\ wpc[c] = "set"
    /\ LET r == redis_set_nx(redis, lock_key[c], lock_value[c], lock_timeout, now, c)
       IN  /\ redis' = r.store
           /\ IF r.ok
              THEN /\ wpc' = [wpc EXCEPT ![c] = "func"]
                   /\ UNCHANGED <<outcome, lock_value>>
              ELSE /\ wpc' = [wpc EXCEPT ![c] = "idle"]
                   /\ outcome' = [outcome EXCEPT ![c] = "contended"]
                   /\ lock_value' = [lock_value EXCEPT ![c] = NoValue]
    /\ UNCHANGED <<now, lock_key, current_value>>

\* the mutant: an exception of the guarded function skips the release
WrapperFunc_no_finally(c) ==
    /\ wpc[c] = "func"
    /\ \E r \in {"returned", "raised"} :
          /\ outcome' = [outcome EXCEPT ![c] = r]
          /\ wpc' = [wpc EXCEPT ![c] = IF r = "raised" THEN "idle" ELSE "finally"]
    /\ UNCHANGED <<now, redis, lock_key, lock_value, current_value>>

\* line 108: the guarded function returns or raises
WrapperFunc(c) ==
    /\ wpc[c] = "func"
    /\ \E r \in {"returned", "raised"} :
          outcome' = [outcome EXCEPT ![c] = r]
    /\ wpc' = [wpc EXCEPT ![c] = "finally"]
    /\ UNCHANGED <<now, redis, lock_key, lock_value, current_value>>

\* the process dies inside the guarded function: the finally block of lines
\* 109-113 never runs and the binding stays until its TTL ends
Crash(c) ==
    /\ wpc[c] = "func"
    /\ wpc' = [wpc EXCEPT ![c] = "crashed"]
    /\ outcome' = [outcome EXCEPT ![c] = "crashed"]
    /\ UNCHANGED <<now, redis, lock_key, lock_value, current_value>>

\* lines 111-112: GET, and the comparison with the caller's token
WrapperGet(c) ==
    /\ wpc[c] = "finally"
    /\ LET v == redis_get(redis, lock_key[c], now)
       IN  IF v = lock_value[c]
           THEN /\ current_value' = [current_value EXCEPT ![c] = v]
                /\ wpc' = [wpc EXCEPT ![c] = "delete"]
                /\ UNCHANGED lock_value
           ELSE /\ wpc' = [wpc EXCEPT ![c] = "idle"]
                /\ UNCHANGED current_value
                /\ lock_value' = [lock_value EXCEPT ![c] = NoValue]
    /\ UNCHANGED <<now, redis, lock_key, outcome>>

\* line 113: DEL
WrapperDelete(c) ==
    /\ wpc[c] = "delete"
    /\ redis' = redis_delete(redis, lock_key[c])
    /\ wpc' = [wpc EXCEPT ![c] = "idle"]
    /\ lock_value' = [lock_value EXCEPT ![c] = NoValue]
    /\ current_value' = [current_value EXCEPT ![c] = NoValue]
    /\ UNCHANGED <<now, lock_key, outcome>>

\* time passes
Tick ==
    /\ now + TickStep <= MaxTime
    /\ now' = now + TickStep
    /\ redis' = redis_expire(redis, now')
    /\ UNCHANGED <<wpc, lock_key, lock_value, current_value, outcome>>

----------------------------------------------------------------------------
(* ConsistentHashing *)

\* the nodes of the cluster, in the order of the CLUSTER_NODES list
ClusterNodeList == <<"node1", "node2">>

CLUSTER_NODES == {ClusterNodeList[i] : i \in 1..Len(ClusterNodeList)}

Txns == {"t1"}

\* the default of CLUSTER_NODES, the members a ring is built from
RingNodeList == <<"node1", "node2", "node3">>

RingNodes == {RingNodeList[i] : i \in 1..Len(RingNodeList)}

\* the keys that are looked up: transaction ids
KeyList == <<"t1", "t2", "t3", "t4", "t5", "t6", "t7", "t8",
             "t9", "t10", "t11", "t12", "t13", "t14", "t15", "t16">>

Keys == {KeyList[i] : i \in 1..Len(KeyList)}

\* a node name whose string for replica 0 has the digest of "node1:0"
CollidingNode == "node4"

NodeNumber(node) ==
    IF node = CollidingNode THEN Len(RingNodeList) + 1
    ELSE CHOOSE i \in 1..Len(RingNodeList) : RingNodeList[i] = node

TxnNumber(t) == CHOOSE i \in 1..Len(KeyList) : KeyList[i] = t

\* _hash: the md5 digest as an integer, here a fixed map into 0..HashSpace-1.
\* <<node, i>> is the string "{node}:{i}"; <<t>> is a transaction id.
\* The replica points of the nodes of RingNodeList are pairwise distinct, as
\* md5 digests of distinct strings are but for a collision; CollidingNode is a
\* name with a collision. A key's hash may fall on a point.
_hash(key) ==
    IF Len(key) = 2
    THEN LET k == IF key = <<CollidingNode, 0>> THEN <<RingNodeList[1], 0>> ELSE key
         IN  (NodeNumber(k[1]) * 5 + k[2] * 8) % HashSpace
    ELSE (TxnNumber(key[1]) * 5 + 6) % HashSpace

\* the mutant: the points are kept in descending order
RECURSIVE sorted_descending(_)
sorted_descending(S) ==
    IF S = {} THEN <<>>
    ELSE LET m == CHOOSE x \in S : \A y \in S : x >= y
         IN  <<m>> \o sorted_descending(S \ {m})

RECURSIVE sorted(_)
sorted(S) ==
    IF S = {} THEN <<>>
    ELSE LET m == CHOOSE x \in S : \A y \in S : x <= y
         IN  <<m>> \o sorted(S \ {m})

RECURSIVE add_points(_, _, _)
add_points(ring, node, i) ==
    IF i >= replicas THEN ring
    ELSE add_points([k \in DOMAIN ring \cup {_hash(<<node, i>>)} |->
                        IF k = _hash(<<node, i>>) THEN node ELSE ring[k]],
                    node, i + 1)

\* the mutant: the new points are appended to the list kept so far
add_node_appending(ch, node) ==
    LET r == add_points(ch.ring, node, 0)
    IN  [ring |-> r,
         sorted_keys |-> ch.sorted_keys \o
                         sorted({_hash(<<node, i>>) : i \in 0..(replicas - 1)})]

\* the mutant: the replica numbered 0 is left out
add_node_from_one(ch, node) ==
    LET r == add_points(ch.ring, node, 1)
    IN  [ring |-> r, sorted_keys |-> sorted(DOMAIN r)]

add_node(ch, node) ==
    LET r == add_points(ch.ring, node, 0)
    IN  [ring |-> r, sorted_keys |-> sorted(DOMAIN r)]

RECURSIVE remove_points(_, _, _)
remove_points(ring, node, i) ==
    IF i >= replicas THEN ring
    ELSE remove_points([k \in DOMAIN ring \ {_hash(<<node, i>>)} |-> ring[k]],
                       node, i + 1)

\* the mutant: only the replica numbered 0 is deleted
remove_node_first_replica(ch, node) ==
    LET r == [k \in DOMAIN ch.ring \ {_hash(<<node, 0>>)} |-> ch.ring[k]]
    IN  [ring |-> r, sorted_keys |-> sorted(DOMAIN r)]

\* the mutant: the list of points is not rebuilt
remove_node_stale_keys(ch, node) ==
    [ring |-> remove_points(ch.ring, node, 0), sorted_keys |-> ch.sorted_keys]

\* the mutant: the points of every node are dropped
remove_node_all(ch, node) ==
    [ring |-> [k \in {} |-> ""], sorted_keys |-> <<>>]

remove_node(ch, node) ==
    LET r == remove_points(ch.ring, node, 0)
    IN  [ring |-> r, sorted_keys |-> sorted(DOMAIN r)]

RECURSIVE add_nodes(_, _, _)
add_nodes(ch, nodes, i) ==
    IF i > Len(nodes) THEN ch ELSE add_nodes(add_node(ch, nodes[i]), nodes, i + 1)

\* __init__
ConsistentHashing(nodes) ==
    add_nodes([ring |-> [k \in {} |-> ""], sorted_keys |-> <<>>], nodes, 1)

RingEmptyError == "Hash ring is empty"

\* the mutant: the answer depends on the answer given before
get_node_alternating(ch, key) ==
    IF DOMAIN ch.ring = {} THEN RingEmptyError
    ELSE IF result.node = ch.ring[ch.sorted_keys[1]]
         THEN ch.ring[ch.sorted_keys[Len(ch.sorted_keys)]]
         ELSE ch.ring[ch.sorted_keys[1]]

\* the mutant: an empty ring answers with a node name
get_node_default(ch, key) ==
    IF DOMAIN ch.ring = {} THEN RingNodeList[1]
    ELSE LET hash_key == _hash(key)
             at_or_after == {i \in 1..Len(ch.sorted_keys) : ch.sorted_keys[i] >= hash_key}
         IN  IF at_or_after = {}
             THEN ch.ring[ch.sorted_keys[1]]
             ELSE ch.ring[ch.sorted_keys[CHOOSE i \in at_or_after :
                                            \A j \in at_or_after : i <= j]]

\* the first ring point at or after the key's hash, else the first point
get_node(ch, key) ==
    IF DOMAIN ch.ring = {} THEN RingEmptyError
    ELSE LET hash_key == _hash(key)
             at_or_after == {i \in 1..Len(ch.sorted_keys) : ch.sorted_keys[i] >= hash_key}
         IN  IF at_or_after = {}
             THEN ch.ring[ch.sorted_keys[1]]
             ELSE ch.ring[ch.sorted_keys[CHOOSE i \in at_or_after :
                                            \A j \in at_or_after : i <= j]]

\* the mutant: every node names itself
get_node_for_transaction_self(node_id, transaction_id) == node_id

get_node_for_transaction(node_id, transaction_id) ==
    get_node(consistent_hash[node_id], <<transaction_id>>)

\* the mutant: every node takes every key for its own
is_responsible_always(node_id, key) == TRUE

\* on the node whose NODE_ID is node_id
is_responsible_for_key(node_id, key) ==
    get_node_for_transaction(node_id, key) = node_id

\* an administrative add_node on one node's ring
AddNode(n, node) ==
    /\ ring_ops < MaxRingOps
    /\ ring_ops' = ring_ops + 1
    /\ consistent_hash' = [consistent_hash EXCEPT ![n] = add_node(@, node)]
    /\ UNCHANGED <<redis, transactions, accounts, topic, offset, pc, txn,
                   response, calls, applied, events, log>>

\* an administrative remove_node on one node's ring
RemoveNode(n, node) ==
    /\ ring_ops < MaxRingOps
    /\ ring_ops' = ring_ops + 1
    /\ consistent_hash' = [consistent_hash EXCEPT ![n] = remove_node(@, node)]
    /\ UNCHANGED <<redis, transactions, accounts, topic, offset, pc, txn,
                   response, calls, applied, events, log>>

NoResult == [key |-> "", node |-> ""]

NoOp == [op |-> "", node |-> ""]

\* add_node(node) on the ring
RingAddNode(node) ==
    /\ hash_ring' = add_node(hash_ring, node)
    /\ ring_before' = hash_ring
    /\ last_op' = [op |-> "add", node |-> node]
    /\ result' = NoResult

\* remove_node(node) on the ring
RingRemoveNode(node) ==
    /\ hash_ring' = remove_node(hash_ring, node)
    /\ ring_before' = hash_ring
    /\ last_op' = [op |-> "remove", node |-> node]
    /\ result' = NoResult

\* add_node(node) and then remove_node(node) on the ring
RingRoundTrip(node) ==
    /\ hash_ring' = remove_node(add_node(hash_ring, node), node)
    /\ ring_before' = hash_ring
    /\ last_op' = [op |-> "add_remove", node |-> node]
    /\ result' = NoResult

\* get_node(key) on the ring: the object is only read
RingGetNode(key) ==
    /\ result' = [key |-> key, node |-> get_node(hash_ring, <<key>>)]
    /\ UNCHANGED <<hash_ring, ring_before, last_op>>

----------------------------------------------------------------------------
(* The account service: the ledger behind update_account_balance *)

InitialAccounts ==
    [a \in Accounts |-> [balance |-> IF a = "A" THEN 2 ELSE 1, status |-> "active"]]

Amounts == {1, 3}

NoResponse == [status_code |-> 0, detail |-> ""]

NothingApplied == [debit |-> 0, credit |-> 0, reversal |-> 0]

\* the NODE_ID of the account service's process
AccountServiceNode == "node1"

\* PUT /accounts/{account_id} with a status
UpdateAccount(account_id, status) ==
    /\ accounts[account_id].status # status
    /\ accounts' = [accounts EXCEPT ![account_id].status = status]
    /\ UNCHANGED <<redis, consistent_hash, ring_ops, transactions, topic, offset,
                   pc, txn, response, calls, applied, events, log>>

\* POST /accounts/{account_id}/deposit, the body of deposit_funds; kafka_ok is
\* whether its produce_message of the balance event returned
deposit_funds(accts, account_id, amount, kafka_ok) ==
    IF accts[account_id].status # "active"
    THEN [status_code |-> 400, detail |-> "not active", accounts |-> accts, applied |-> FALSE]
    ELSE [status_code |-> IF kafka_ok THEN 200 ELSE 500,
          detail |-> IF kafka_ok THEN "" ELSE "produce failed",
          accounts |-> [accts EXCEPT ![account_id].balance = @ + amount],
          applied |-> TRUE]

\* the mutant: the debit is accepted whatever the balance
withdraw_funds_unchecked(accts, account_id, amount, kafka_ok) ==
    IF accts[account_id].status # "active"
    THEN [status_code |-> 400, detail |-> "not active", accounts |-> accts, applied |-> FALSE]
    ELSE [status_code |-> 200, detail |-> "",
          accounts |-> [accts EXCEPT ![account_id].balance = @ - amount],
          applied |-> TRUE]

\* POST /accounts/{account_id}/withdraw: the debit of the ledger contract
withdraw_funds(accts, account_id, amount, kafka_ok) ==
    IF accts[account_id].status # "active"
    THEN [status_code |-> 400, detail |-> "not active", accounts |-> accts, applied |-> FALSE]
    ELSE IF accts[account_id].balance < amount
    THEN [status_code |-> 400, detail |-> "insufficient funds", accounts |-> accts,
          applied |-> FALSE]
    ELSE [status_code |-> 200, detail |-> "",
          accounts |-> [accts EXCEPT ![account_id].balance = @ - amount],
          applied |-> TRUE]

----------------------------------------------------------------------------
(* The transaction service *)

\* create_transaction / make_payment: the PENDING row is committed
Submit(t, from_account_id, to_account_id, amount) ==
    /\ t \notin DOMAIN transactions
    /\ \A u \in Txns : TxnNumber(u) < TxnNumber(t) => u \in DOMAIN transactions
    /\ transactions' =
          [u \in DOMAIN transactions \cup {t} |->
              IF u = t
              THEN [status |-> "pending", from_account_id |-> from_account_id,
                    to_account_id |-> to_account_id, amount |-> amount,
                    completed_at |-> FALSE]
              ELSE transactions[u]]
    /\ UNCHANGED <<redis, consistent_hash, ring_ops, accounts, topic, offset,
                   pc, txn, response, calls, applied, events, log>>

InTopic(t) == \E i \in 1..Len(topic) : topic[i] = t

\* the mutant: the message is produced before the row is committed
SubmitToKafka_before_commit(t) ==
    /\ ~InTopic(t)
    /\ topic' = Append(topic, t)
    /\ UNCHANGED <<redis, consistent_hash, ring_ops, transactions, accounts, offset,
                   pc, txn, response, calls, applied, events, log>>

\* submit_transaction_to_kafka, the background task of a submission
SubmitToKafka(t) ==
    /\ t \in DOMAIN transactions
    /\ ~InTopic(t)
    /\ topic' = Append(topic, t)
    /\ UNCHANGED <<redis, consistent_hash, ring_ops, transactions, accounts, offset,
                   pc, txn, response, calls, applied, events, log>>

\* the consumer is created again after a consumer error and resumes from the
\* last committed offset: the message before the current one comes again
Redeliver(n) ==
    /\ kafka_client[n].running
    /\ pc[n] = "idle"
    /\ offset[n] > 0
    /\ offset' = [offset EXCEPT ![n] = @ - 1]
    /\ UNCHANGED <<redis, consistent_hash, ring_ops, transactions, accounts, topic,
                   pc, txn, response, calls, applied, events, log>>

\* the handler is left: its locals are gone, the log line stays
Return(n, line) ==
    /\ pc' = [pc EXCEPT ![n] = "idle"]
    /\ txn' = [txn EXCEPT ![n] = ""]
    /\ response' = [response EXCEPT ![n] = NoResponse]
    /\ calls' = [calls EXCEPT ![n] = {}]
    /\ log' = [log EXCEPT ![n] = line]

\* lines 153-162: the consumer thread hands the next message to the handler,
\* which checks the ownership of the transaction id
Receive(n) ==
    /\ kafka_client[n].running
    /\ pc[n] = "idle"
    /\ offset[n] < Len(topic)
    /\ offset' = [offset EXCEPT ![n] = @ + 1]
    /\ LET transaction_id == topic[offset[n] + 1]
       IN  IF get_node_for_transaction(n, transaction_id) = RingEmptyError
           THEN Return(n, "error")
           ELSE IF ~is_responsible_for_key(n, transaction_id)
           THEN Return(n, "not responsible")
           ELSE /\ pc' = [pc EXCEPT ![n] = "load"]
                /\ txn' = [txn EXCEPT ![n] = transaction_id]
                /\ log' = [log EXCEPT ![n] = ""]
                /\ UNCHANGED <<response, calls>>
    /\ UNCHANGED <<redis, consistent_hash, ring_ops, transactions, accounts, topic,
                   applied, events>>

\* the mutant: the status of the row is not looked at
is_pending_always(row) == TRUE

\* line 175: transaction.status != TransactionStatus.PENDING stops the handler
is_pending(row) == row.status = "pending"

\* lines 167-177: the row is read; only a PENDING transaction is processed
Load(n) ==
    /\ pc[n] = "load"
    /\ IF txn[n] \notin DOMAIN transactions
       THEN Return(n, "not found")
       ELSE IF ~is_pending(transactions[txn[n]])
       THEN Return(n, "not pending")
       ELSE /\ pc' = [pc EXCEPT ![n] = "debit"]
            /\ UNCHANGED <<txn, response, calls, log>>
    /\ UNCHANGED <<redis, consistent_hash, ring_ops, transactions, accounts, topic,
                   offset, applied, events>>

Legs == {"debit", "credit", "reversal"}

\* the handler's position while the account service works on a leg
Locked(leg) ==
    CASE leg = "debit" -> "debit_locked"
      [] leg = "credit" -> "credit_locked"
      [] OTHER -> "reversal_locked"

LegOf(position) == CHOOSE leg \in Legs : Locked(leg) = position

\* the account a leg updates
LegAccount(leg, row) ==
    IF leg = "credit" THEN row.to_account_id ELSE row.from_account_id

\* the mutant: a failed credit is not compensated
AfterLeg_no_reversal(leg, success) ==
    CASE leg = "debit" -> IF success THEN "credit" ELSE "debit_failed_commit"
      [] leg = "credit" -> IF success THEN "completed_commit" ELSE "credit_failed_commit"
      [] OTHER -> "credit_failed_commit"

\* where the handler goes when update_account_balance has returned
AfterLeg(leg, success) ==
    CASE leg = "debit" -> IF success THEN "credit" ELSE "debit_failed_commit"
      [] leg = "credit" -> IF success THEN "completed_commit" ELSE "reversal"
      [] OTHER -> "credit_failed_commit"

\* update_account_balance, lines 135-150: the request fails before it reaches
\* the account service, or something other than a RequestError is raised
RequestFails(n, raised) ==
    /\ pc[n] \in Legs
    /\ calls' = [calls EXCEPT ![n] = @ \cup {pc[n]}]
    /\ IF raised
       THEN /\ pc' = [pc EXCEPT ![n] = "except_commit"]
            /\ response' = [response EXCEPT ![n] = [status_code |-> 0, detail |-> "exception"]]
       ELSE /\ pc' = [pc EXCEPT ![n] = AfterLeg(pc[n], FALSE)]
            /\ response' = [response EXCEPT ![n] = [status_code |-> 0, detail |-> "request error"]]
    /\ UNCHANGED <<consistent_hash, ring_ops, transactions, accounts, topic,
                   offset, txn, applied, events, log, redis>>

\* the request reaches the account service, whose wrapper tries the account's lock
RequestLock(n) ==
    /\ pc[n] \in Legs
    /\ calls' = [calls EXCEPT ![n] = @ \cup {pc[n]}]
    /\ LET account_id == LegAccount(pc[n], transactions[txn[n]])
           r == redis_set_nx(redis, <<key_prefix, account_id>>,
                             <<AccountServiceNode, now>>, lock_timeout, now, n)
       IN  /\ redis' = r.store
           /\ IF r.ok
              THEN /\ pc' = [pc EXCEPT ![n] = Locked(pc[n])]
                   /\ UNCHANGED response
              ELSE /\ pc' = [pc EXCEPT ![n] = AfterLeg(pc[n], FALSE)]
                   /\ response' = [response EXCEPT ![n] =
                                      [status_code |-> 500, detail |-> "lock"]]
    /\ UNCHANGED <<consistent_hash, ring_ops, transactions, accounts, topic,
                   offset, txn, applied, events, log>>

\* the guarded endpoint runs, the wrapper releases the lock, and
\* update_account_balance returns whether the status code is 200
RequestServed(n, kafka_ok) ==
    /\ pc[n] \in {Locked(leg) : leg \in Legs}
    /\ LET leg == LegOf(pc[n])
           row == transactions[txn[n]]
           account_id == LegAccount(leg, row)
           r == IF leg = "debit"
                THEN withdraw_funds(accounts, account_id, row.amount, kafka_ok)
                ELSE deposit_funds(accounts, account_id, row.amount, kafka_ok)
       IN  /\ accounts' = r.accounts
           /\ applied' = IF r.applied
                         THEN [applied EXCEPT ![txn[n]][leg] = @ + 1]
                         ELSE applied
           /\ redis' = IF redis_get(redis, <<key_prefix, account_id>>, now)
                            = <<AccountServiceNode, now>>
                       THEN redis_delete(redis, <<key_prefix, account_id>>)
                       ELSE redis
           /\ response' = [response EXCEPT ![n] =
                              [status_code |-> r.status_code, detail |-> r.detail]]
           /\ pc' = [pc EXCEPT ![n] = AfterLeg(leg, r.status_code = 200)]
    /\ UNCHANGED <<consistent_hash, ring_ops, transactions, topic, offset,
                   txn, calls, events, log>>

\* the mutant: the handler goes on without the status being written
CommitFailed_not_written(n) ==
    /\ pc[n] \in {"debit_failed_commit", "credit_failed_commit", "except_commit"}
    /\ pc' = [pc EXCEPT ![n] =
                 CASE pc[n] = "debit_failed_commit" -> "debit_failed_publish"
                   [] pc[n] = "credit_failed_commit" -> "credit_failed_publish"
                   [] OTHER -> "except_publish"]
    /\ UNCHANGED <<redis, consistent_hash, ring_ops, transactions, accounts, topic,
                   offset, txn, response, calls, applied, events, log>>

\* lines 191-192, 225-226 and 268-269: status FAILED is committed
CommitFailed(n) ==
    /\ pc[n] \in {"debit_failed_commit", "credit_failed_commit", "except_commit"}
    /\ transactions' = [transactions EXCEPT ![txn[n]].status = "failed"]
    /\ pc' = [pc EXCEPT ![n] =
                 CASE pc[n] = "debit_failed_commit" -> "debit_failed_publish"
                   [] pc[n] = "credit_failed_commit" -> "credit_failed_publish"
                   [] OTHER -> "except_publish"]
    /\ UNCHANGED <<redis, consistent_hash, ring_ops, accounts, topic, offset,
                   txn, response, calls, applied, events, log>>

\* lines 242-244: status COMPLETED and completed_at are committed
CommitCompleted(n) ==
    /\ pc[n] = "completed_commit"
    /\ transactions' = [transactions EXCEPT ![txn[n]].status = "completed",
                                            ![txn[n]].completed_at = TRUE]
    /\ pc' = [pc EXCEPT ![n] = "completed_publish"]
    /\ UNCHANGED <<redis, consistent_hash, ring_ops, accounts, topic, offset,
                   txn, response, calls, applied, events, log>>

\* the event each publishing position sends
EventOf(position, transaction_id) ==
    CASE position = "debit_failed_publish" ->
            [event_type |-> "transaction_failed", transaction_id |-> transaction_id,
             reason |-> "Failed to debit source account"]
      [] position = "credit_failed_publish" ->
            [event_type |-> "transaction_failed", transaction_id |-> transaction_id,
             reason |-> "Failed to credit destination account"]
      [] position = "completed_publish" ->
            [event_type |-> "transaction_completed", transaction_id |-> transaction_id,
             reason |-> ""]
      [] OTHER ->
            [event_type |-> "transaction_failed", transaction_id |-> transaction_id,
             reason |-> "exception"]

\* lines 195-205, 229-239 and 247-262: the terminal event is produced and the
\* handler returns, or produce_message raises inside the try block
Publish(n, kafka_ok) ==
    /\ pc[n] \in {"debit_failed_publish", "credit_failed_publish", "completed_publish"}
    /\ IF kafka_ok
       THEN /\ events' = Append(events, EventOf(pc[n], txn[n]))
            /\ Return(n, pc[n])
       ELSE /\ pc' = [pc EXCEPT ![n] = "except_commit"]
            /\ UNCHANGED <<events, txn, response, calls, log>>
    /\ UNCHANGED <<redis, consistent_hash, ring_ops, transactions, accounts, topic,
                   offset, applied>>

\* lines 272-281: the except block's event; when produce_message raises here
\* the exception leaves the handler and the consumer thread logs it
ExceptPublish(n, kafka_ok) ==
    /\ pc[n] = "except_publish"
    /\ IF kafka_ok
       THEN /\ events' = Append(events, EventOf(pc[n], txn[n]))
            /\ Return(n, pc[n])
       ELSE /\ UNCHANGED events
            /\ Return(n, "error")
    /\ UNCHANGED <<redis, consistent_hash, ring_ops, transactions, accounts, topic,
                   offset, applied>>

----------------------------------------------------------------------------
(* The Kafka client *)

TRANSACTION_TOPIC == "transactions"

NOTIFICATION_TOPIC == "notifications"

\* the topics a consumer is started for
Topics == {TRANSACTION_TOPIC, NOTIFICATION_TOPIC}

EmptyMap == [k \in {} |-> ""]

NoMessage == [value |-> EmptyMap, sent |-> EmptyMap]

\* the values handed to produce_message: a dict without a metadata entry, or
\* with a metadata map that is empty, has entries, or names a source node
Values ==
    {[event_type |-> "transaction_created"],
     [event_type |-> "transaction_created", metadata |-> EmptyMap],
     [event_type |-> "transaction_created",
      metadata |-> [existing_key |-> "existing_value"]],
     [event_type |-> "transaction_created", metadata |-> [source_node |-> "node2"]],
     [event_type |-> "transaction_created",
      metadata |-> [existing_key |-> "existing_value", source_node |-> "node2"]]}

\* __init__, and the consumer that startup_event starts
KafkaClient ==
    [running |-> TRUE,
     consumers |-> [t \in {TRANSACTION_TOPIC} |-> 0],
     producer |-> [created |-> FALSE, closes |-> 0],
     stop_pc |-> "none",
     to_close |-> {},
     close_errors |-> {},
     sent |-> NoMessage]

\* the mutant: the metadata map is made anew
produce_message_new_metadata(value, node_id) ==
    [k \in DOMAIN value \cup {"metadata"} |->
        IF k = "metadata" THEN [source_node |-> node_id] ELSE value[k]]

\* lines 63-66 of produce_message on the node whose NODE_ID is node_id: the
\* value that is handed to producer.send
produce_message(value, node_id) ==
    LET with_metadata ==
            IF "metadata" \in DOMAIN value THEN value
            ELSE [k \in DOMAIN value \cup {"metadata"} |->
                     IF k = "metadata" THEN EmptyMap ELSE value[k]]
    IN  [with_metadata EXCEPT !.metadata =
            [k \in DOMAIN @ \cup {"source_node"} |->
                IF k = "source_node" THEN node_id ELSE @[k]]]

\* start_consumer: the consumer thread registers its consumer
StartConsumer(n, t) ==
    /\ kafka_client[n].running
    /\ kafka_client[n].stop_pc = "none"
    /\ t \notin DOMAIN kafka_client[n].consumers
    /\ kafka_client' =
          [kafka_client EXCEPT ![n].consumers =
              [u \in DOMAIN @ \cup {t} |-> IF u = t THEN 0 ELSE @[u]]]

\* produce_message; how is what Kafka does: the producer cannot be created,
\* send raises, or the value is sent
Produce(n, value, how) ==
    /\ kafka_client[n].stop_pc = "none"
    /\ IF how = "create_raises"
       THEN /\ ~kafka_client[n].producer.created
            /\ UNCHANGED kafka_client
       ELSE kafka_client' =
               [kafka_client EXCEPT
                   ![n].producer.created = TRUE,
                   ![n].sent = IF how = "sent"
                               THEN [value |-> value,
                                     sent |-> produce_message(value, n)]
                               ELSE @]

\* stop, line 130: running is cleared and the loop over the consumers begins
StopBegin(n) ==
    /\ kafka_client[n].stop_pc = "none"
    /\ kafka_client' =
          [kafka_client EXCEPT
              ![n].running = FALSE,
              ![n].to_close = DOMAIN kafka_client[n].consumers,
              ![n].stop_pc = IF DOMAIN kafka_client[n].consumers = {}
                             THEN "producer" ELSE "consumers"]

\* the mutant: an exception of close leaves stop
StopCloseConsumer_raising(n, t, raises) ==
    /\ kafka_client[n].stop_pc = "consumers"
    /\ t \in kafka_client[n].to_close
    /\ kafka_client' =
          [kafka_client EXCEPT
              ![n].consumers[t] = @ + 1,
              ![n].to_close = IF raises THEN {} ELSE @ \ {t},
              ![n].close_errors = IF raises THEN @ \cup {t} ELSE @,
              ![n].stop_pc = IF raises THEN "done"
                             ELSE IF kafka_client[n].to_close = {t}
                             THEN "producer" ELSE "consumers"]

\* stop, lines 133-138: one turn of the loop; an exception of close is logged
StopCloseConsumer(n, t, raises) ==
    /\ kafka_client[n].stop_pc = "consumers"
    /\ t \in kafka_client[n].to_close
    /\ kafka_client' =
          [kafka_client EXCEPT
              ![n].consumers[t] = @ + 1,
              ![n].to_close = @ \ {t},
              ![n].close_errors = IF raises THEN @ \cup {t} ELSE @,
              ![n].stop_pc = IF kafka_client[n].to_close = {t}
                             THEN "producer" ELSE "consumers"]

\* stop, lines 141-146: the producer, when there is one, is closed
StopCloseProducer(n, raises) ==
    /\ kafka_client[n].stop_pc = "producer"
    /\ kafka_client' =
          [kafka_client EXCEPT
              ![n].producer.closes =
                  IF kafka_client[n].producer.created THEN @ + 1 ELSE @,
              ![n].close_errors =
                  IF kafka_client[n].producer.created /\ raises
                  THEN @ \cup {"producer"} ELSE @,
              ![n].stop_pc = "done"]

\* shutdown_event has returned and the process ends: the consumer thread is a
\* daemon thread that nothing joins, it ends wherever the handler is
Exit(n) ==
    /\ kafka_client[n].stop_pc = "done"
    /\ pc[n] # "exited"
    /\ pc' = [pc EXCEPT ![n] = "exited"]
    /\ UNCHANGED <<redis, consistent_hash, ring_ops, transactions, accounts, topic,
                   offset, txn, response, calls, applied, events, log>>

\* the node whose consumer thread is followed message by message
ThreadNode == "node1"

\* consumer_thread has created its first consumer, nothing is delivered yet
ConsumerThread ==
    [alive |-> TRUE, ended_by |-> "", consumer |-> 1, position |-> 0,
     committed |-> 0, delivered |-> <<>>]

\* the mutant: an exception of the callback ends the thread
Deliver_ending(raises) ==
    /\ consumer_thread.alive
    /\ kafka_client[ThreadNode].running
    /\ consumer_thread.position < MaxMessages
    /\ consumer_thread' =
          [consumer_thread EXCEPT
              !.alive = ~raises,
              !.position = @ + 1,
              !.delivered = Append(@, [consumer |-> consumer_thread.consumer,
                                       message |-> consumer_thread.position + 1,
                                       raised |-> raises])]

\* lines 104-111: the consumer yields its next message and the callback is
\* called with it; an exception of the callback is logged
Deliver(raises) ==
    /\ consumer_thread.alive
    /\ kafka_client[ThreadNode].running
    /\ consumer_thread.position < MaxMessages
    /\ consumer_thread' =
          [consumer_thread EXCEPT
              !.position = @ + 1,
              !.delivered = Append(@, [consumer |-> consumer_thread.consumer,
                                       message |-> consumer_thread.position + 1,
                                       raised |-> raises])]

\* enable_auto_commit: the position of the consumer is committed for the group
AutoCommit ==
    /\ consumer_thread.alive
    /\ consumer_thread.committed < consumer_thread.position
    /\ consumer_thread' = [consumer_thread EXCEPT !.committed = consumer_thread.position]

\* lines 112-118: the iteration over the consumer raises; a new consumer is
\* created, which starts at the committed offset, or create_consumer raises
\* and the exception leaves the thread
ConsumerError(created) ==
    /\ consumer_thread.alive
    /\ kafka_client[ThreadNode].running
    /\ consumer_thread.consumer < MaxConsumers
    /\ consumer_thread' =
          IF created
          THEN [consumer_thread EXCEPT !.consumer = @ + 1,
                                       !.position = consumer_thread.committed]
          ELSE [consumer_thread EXCEPT !.alive = FALSE, !.ended_by = "create_consumer"]

\* line 102: running is cleared, the loop and the thread end
ThreadExit ==
    /\ consumer_thread.alive
    /\ ~kafka_client[ThreadNode].running
    /\ consumer_thread' = [consumer_thread EXCEPT !.alive = FALSE, !.ended_by = "running"]

----------------------------------------------------------------------------

Init ==
    /\ now = 0
    /\ redis = [k \in {} |-> NoValue]
    /\ wpc = [c \in Callers |-> "idle"]
    /\ lock_key = [c \in Callers |-> NoValue]
    /\ lock_value = [c \in Callers |-> NoValue]
    /\ current_value = [c \in Callers |-> NoValue]
    /\ outcome = [c \in Callers |-> "none"]
    /\ consistent_hash = [n \in CLUSTER_NODES |-> ConsistentHashing(ClusterNodeList)]
    /\ ring_ops = 0
    /\ transactions = [t \in {} |-> NoValue]
    /\ accounts = InitialAccounts
    /\ topic = <<>>
    /\ offset = [n \in CLUSTER_NODES |-> 0]
    /\ pc = [n \in CLUSTER_NODES |-> "idle"]
    /\ txn = [n \in CLUSTER_NODES |-> ""]
    /\ response = [n \in CLUSTER_NODES |-> NoResponse]
    /\ calls = [n \in CLUSTER_NODES |-> {}]
    /\ applied = [t \in Txns |-> NothingApplied]
    /\ events = <<>>
    /\ log = [n \in CLUSTER_NODES |-> ""]
    /\ hash_ring = ConsistentHashing(RingNodeList)
    /\ ring_before = hash_ring
    /\ last_op = NoOp
    /\ result = NoResult
    /\ kafka_client = [n \in CLUSTER_NODES |-> KafkaClient]
    /\ consumer_thread = ConsumerThread

NextLock ==
    /\ \/ \E c \in Callers : \E resource_id \in Accounts \cup {""} : WrapperEnter(c, resource_id)
       \/ \E c \in Callers : WrapperSet(c)
       \/ \E c \in Callers : WrapperFunc(c)
       \/ \E c \in Callers : Crash(c)
       \/ \E c \in Callers : WrapperGet(c)
       \/ \E c \in Callers : WrapperDelete(c)
       \/ Tick
    /\ UNCHANGED txnVars
    /\ UNCHANGED ringVars
    /\ UNCHANGED kafkaVars

SpecLock == Init /\ [][NextLock]_vars

\* the clock of the Redis server does not stop
SpecLockLive == Init /\ [][NextLock]_vars /\ WF_now(Tick)

Next ==
    /\ \/ \E n \in CLUSTER_NODES : \E node \in CLUSTER_NODES : AddNode(n, node)
       \/ \E n \in CLUSTER_NODES : \E node \in CLUSTER_NODES : RemoveNode(n, node)
       \/ \E a \in Accounts : \E st \in {"active", "suspended"} : UpdateAccount(a, st)
       \/ \E t \in Txns : \E f \in {"A"} : \E a \in Amounts :
             \E to \in Accounts \ {f} : Submit(t, f, to, a)
       \/ \E t \in Txns : SubmitToKafka(t)
       \/ \E n \in CLUSTER_NODES : Redeliver(n)
       \/ \E n \in CLUSTER_NODES : Receive(n)
       \/ \E n \in CLUSTER_NODES : Load(n)
       \/ \E n \in CLUSTER_NODES : \E raised \in BOOLEAN : RequestFails(n, raised)
       \/ \E n \in CLUSTER_NODES : RequestLock(n)
       \/ \E n \in CLUSTER_NODES : \E ok \in BOOLEAN : RequestServed(n, ok)
       \/ \E n \in CLUSTER_NODES : CommitFailed(n)
       \/ \E n \in CLUSTER_NODES : CommitCompleted(n)
       \/ \E n \in CLUSTER_NODES : \E ok \in BOOLEAN : Publish(n, ok)
       \/ \E n \in CLUSTER_NODES : \E ok \in BOOLEAN : ExceptPublish(n, ok)
    /\ UNCHANGED now
    /\ UNCHANGED lockVars
    /\ UNCHANGED ringVars
    /\ UNCHANGED kafkaVars

Spec == Init /\ [][Next]_vars

NextRing ==
    /\ \/ \E node \in RingNodes : RingAddNode(node)
       \/ \E node \in RingNodes : RingRemoveNode(node)
       \/ \E key \in Keys : RingGetNode(key)
    /\ UNCHANGED <<now, redis>>
    /\ UNCHANGED lockVars
    /\ UNCHANGED txnVars
    /\ UNCHANGED kafkaVars

SpecRing == Init /\ [][NextRing]_vars

\* the ring, with a node name among the added ones that has a collision
NextRoundTrip ==
    /\ \/ \E node \in RingNodes : RingAddNode(node)
       \/ \E node \in RingNodes : RingRemoveNode(node)
       \/ \E node \in RingNodes \cup {CollidingNode} : RingRoundTrip(node)
       \/ \E key \in Keys : RingGetNode(key)
    /\ UNCHANGED <<now, redis>>
    /\ UNCHANGED lockVars
    /\ UNCHANGED txnVars
    /\ UNCHANGED kafkaVars

SpecRoundTrip == Init /\ [][NextRoundTrip]_vars

NextKafka ==
    /\ \/ \E n \in CLUSTER_NODES : \E t \in Topics : StartConsumer(n, t)
       \/ \E n \in CLUSTER_NODES : \E value \in Values :
             \E how \in {"sent", "send_raises", "create_raises"} : Produce(n, value, how)
       \/ \E n \in CLUSTER_NODES : StopBegin(n)
       \/ \E n \in CLUSTER_NODES : \E t \in Topics : \E raises \in BOOLEAN :
             StopCloseConsumer(n, t, raises)
       \/ \E n \in CLUSTER_NODES : \E raises \in BOOLEAN : StopCloseProducer(n, raises)
    /\ UNCHANGED <<now, redis, consumer_thread>>
    /\ UNCHANGED lockVars
    /\ UNCHANGED txnVars
    /\ UNCHANGED ringVars

SpecKafka == Init /\ [][NextKafka]_vars

\* the processing nodes while their service is shut down
NextStop ==
    \/ /\ \/ \E t \in Txns : \E f \in {"A"} : \E a \in Amounts :
                \E to \in Accounts \ {f} : Submit(t, f, to, a)
          \/ \E t \in Txns : SubmitToKafka(t)
          \/ \E n \in CLUSTER_NODES : Receive(n)
          \/ \E n \in CLUSTER_NODES : Load(n)
          \/ \E n \in CLUSTER_NODES : \E raised \in BOOLEAN : RequestFails(n, raised)
          \/ \E n \in CLUSTER_NODES : RequestLock(n)
          \/ \E n \in CLUSTER_NODES : \E ok \in BOOLEAN : RequestServed(n, ok)
          \/ \E n \in CLUSTER_NODES : CommitFailed(n)
          \/ \E n \in CLUSTER_NODES : CommitCompleted(n)
          \/ \E n \in CLUSTER_NODES : \E ok \in BOOLEAN : Publish(n, ok)
          \/ \E n \in CLUSTER_NODES : \E ok \in BOOLEAN : ExceptPublish(n, ok)
          \/ \E n \in CLUSTER_NODES : Exit(n)
       /\ UNCHANGED now
       /\ UNCHANGED lockVars
       /\ UNCHANGED ringVars
       /\ UNCHANGED kafkaVars
    \/ /\ \/ \E n \in CLUSTER_NODES : StopBegin(n)
          \/ \E n \in CLUSTER_NODES : \E t \in Topics : \E raises \in BOOLEAN :
                StopCloseConsumer(n, t, raises)
          \/ \E n \in CLUSTER_NODES : \E raises \in BOOLEAN : StopCloseProducer(n, raises)
       /\ UNCHANGED <<now, redis, consumer_thread>>
       /\ UNCHANGED lockVars
       /\ UNCHANGED txnVars
       /\ UNCHANGED ringVars

SpecStop == Init /\ [][NextStop]_vars

\* the consumer thread of one client
NextConsumer ==
    \/ /\ \/ \E raises \in BOOLEAN : Deliver(raises)
          \/ AutoCommit
          \/ \E created \in BOOLEAN : ConsumerError(created)
          \/ ThreadExit
       /\ UNCHANGED <<now, redis, kafka_client>>
       /\ UNCHANGED lockVars
       /\ UNCHANGED txnVars
       /\ UNCHANGED ringVars
    \/ /\ StopBegin(ThreadNode)
       /\ UNCHANGED <<now, redis, consumer_thread>>
       /\ UNCHANGED lockVars
       /\ UNCHANGED txnVars
       /\ UNCHANGED ringVars

SpecConsumer == Init /\ [][NextConsumer]_vars

\* a step of the handler that node n is in: the row is read, a ledger call
\* returns, a status is committed or an event is produced
HandlerStep(n) ==
    /\ \/ Load(n)
       \/ \E raised \in BOOLEAN : RequestFails(n, raised)
       \/ RequestLock(n)
       \/ \E ok \in BOOLEAN : RequestServed(n, ok)
       \/ CommitFailed(n)
       \/ CommitCompleted(n)
       \/ \E ok \in BOOLEAN : Publish(n, ok)
       \/ \E ok \in BOOLEAN : ExceptPublish(n, ok)
    /\ UNCHANGED now
    /\ UNCHANGED lockVars
    /\ UNCHANGED ringVars
    /\ UNCHANGED kafkaVars

\* the processing nodes with the ring they start with
NextProcess ==
    /\ \/ \E a \in Accounts : \E st \in {"active", "suspended"} : UpdateAccount(a, st)
       \/ \E t \in Txns : \E f \in {"A"} : \E a \in Amounts :
             \E to \in Accounts \ {f} : Submit(t, f, to, a)
       \/ \E t \in Txns : SubmitToKafka(t)
       \/ \E n \in CLUSTER_NODES : Redeliver(n)
       \/ \E n \in CLUSTER_NODES : Receive(n)
       \/ \E n \in CLUSTER_NODES : Load(n)
       \/ \E n \in CLUSTER_NODES : \E raised \in BOOLEAN : RequestFails(n, raised)
       \/ \E n \in CLUSTER_NODES : RequestLock(n)
       \/ \E n \in CLUSTER_NODES : \E ok \in BOOLEAN : RequestServed(n, ok)
       \/ \E n \in CLUSTER_NODES : CommitFailed(n)
       \/ \E n \in CLUSTER_NODES : CommitCompleted(n)
       \/ \E n \in CLUSTER_NODES : \E ok \in BOOLEAN : Publish(n, ok)
       \/ \E n \in CLUSTER_NODES : \E ok \in BOOLEAN : ExceptPublish(n, ok)
    /\ UNCHANGED now
    /\ UNCHANGED lockVars
    /\ UNCHANGED ringVars
    /\ UNCHANGED kafkaVars

\* the ledger calls return and the consumer thread keeps running: a handler
\* that can take a step takes one
SpecProcess ==
    Init /\ [][NextProcess]_vars /\ \A n \in CLUSTER_NODES : WF_vars(HandlerStep(n))

----------------------------------------------------------------------------
(* The lock manager's properties *)

\* the caller whose wrapper holds a live binding of key
Holder(key) == IF redis_exists(redis, key, now) THEN redis[key].by ELSE ""

\* C1: an acquire on a key that has a live binding fails and leaves the
\* binding alone; an acquire on a free key succeeds and the key is then bound
\* to the acquirer's token alone, so of two callers that acquire the same
\* free key exactly one succeeds.
C1_AcquireExclusive ==
    [][\A c \in Callers :
          (wpc[c] = "set" /\ wpc'[c] # "set") =>
              IF redis_exists(redis, lock_key[c], now)
              THEN /\ wpc'[c] = "idle"
                   /\ outcome'[c] = "contended"
                   /\ redis' = redis
              ELSE /\ wpc'[c] = "func"
                   /\ redis_get(redis', lock_key[c], now) = lock_value[c]
                   /\ Holder(lock_key[c])' = c
                   /\ \A d \in Callers \ {c} : wpc'[d] = wpc[d]]_vars

\* C1 witness: one caller is inside the guarded function with its binding
\* live, and the other caller's acquire of the same key has failed.
C1_Witness ==
    \E c \in Callers : \E d \in Callers \ {c} :
        /\ wpc[c] = "func"
        /\ Holder(lock_key[c]) = c
        /\ lock_key[d] = lock_key[c]
        /\ wpc[d] = "idle"
        /\ outcome[d] = "contended"

\* C2: a release never deletes a live binding that another caller created.
C2_SafeRelease ==
    [][\A c \in Callers :
          (wpc[c] = "delete" /\ wpc'[c] # "delete") =>
              \A key \in DOMAIN redis :
                  (redis_exists(redis, key, now) /\ redis[key].by # c)
                      => (key \in DOMAIN redis' /\ redis'[key] = redis[key])]_vars

----------------------------------------------------------------------------
(* The transaction processor's properties *)

Terminal == {"completed", "failed", "reversed"}

\* the nodes whose handler is inside the debit/credit sequence of t
Processing(t) == {n \in CLUSTER_NODES : txn[n] = t /\ pc[n] \notin {"idle", "load"}}

EventCount(event_type, t) ==
    Cardinality({i \in 1..Len(events) :
                    events[i].event_type = event_type /\ events[i].transaction_id = t})

\* node n takes a step of its handler
Steps(n) == pc'[n] # pc[n] \/ offset'[n] # offset[n]

\* C3: at most one delivery executes the debit/credit sequence of a
\* transaction, and the ledger applies at most one debit for it.
C3_ProcessedOnce ==
    \A t \in Txns : Cardinality(Processing(t)) <= 1 /\ applied[t].debit <= 1

\* C4: no step changes a status that is COMPLETED, FAILED or REVERSED.
C4_TerminalIsFinal ==
    [][\A t \in DOMAIN transactions :
          transactions[t].status \in Terminal
              => transactions'[t].status = transactions[t].status]_vars

C6_HappyPath ==
    \A n \in CLUSTER_NODES : \A t \in DOMAIN transactions :
        (pc[n] = "idle" /\ log[n] = "completed_publish"
            /\ offset[n] > 0 /\ topic[offset[n]] = t
            /\ Processing(t) = {})
            => /\ transactions[t].status = "completed"
               /\ transactions[t].completed_at
               /\ EventCount("transaction_completed", t) = 1
               /\ accounts[transactions[t].from_account_id].balance
                     = InitialAccounts[transactions[t].from_account_id].balance
                           - transactions[t].amount
               /\ accounts[transactions[t].to_account_id].balance
                     = InitialAccounts[transactions[t].to_account_id].balance
                           + transactions[t].amount

\* C7: a delivery whose debit failed and whose transaction_failed event is out
\* has made no credit call; the destination balance is unchanged, the status
\* is FAILED and there is exactly one transaction_failed event for it.
C7_DebitFailure ==
    /\ \A n \in CLUSTER_NODES :
          pc[n] \in {"debit_failed_commit", "debit_failed_publish"} => calls[n] = {"debit"}
    /\ \A n \in CLUSTER_NODES : \A t \in DOMAIN transactions :
          (pc[n] = "idle" /\ log[n] = "debit_failed_publish"
              /\ offset[n] > 0 /\ topic[offset[n]] = t
              /\ Processing(t) = {})
              => /\ transactions[t].status = "failed"
                 /\ EventCount("transaction_failed", t) = 1
                 /\ applied[t].credit = 0
                 /\ accounts[transactions[t].to_account_id].balance
                       = InitialAccounts[transactions[t].to_account_id].balance

\* C8: a delivery that finds the stored status other than PENDING returns at
\* once: no ledger call, no status change, no event, no lock.
C8_IdempotencyGate ==
    [][\A n \in CLUSTER_NODES :
          (pc[n] = "load" /\ Steps(n) /\ txn[n] \in DOMAIN transactions
              /\ transactions[txn[n]].status # "pending")
              => /\ pc'[n] = "idle"
                 /\ calls[n] = {} /\ calls'[n] = {}
                 /\ UNCHANGED <<accounts, applied, transactions, events, redis>>]_vars

\* C8 witness: a message of a transaction that is already COMPLETED or FAILED
\* has been delivered and dropped at the gate.
C8_Witness ==
    \E n \in CLUSTER_NODES :
        /\ pc[n] = "idle"
        /\ log[n] = "not pending"
        /\ offset[n] > 0
        /\ transactions[topic[offset[n]]].status \in {"completed", "failed"}
        /\ events # <<>>

\* C9: a node that the ring does not name as the owner of the transaction id
\* drops the message: no ledger call, no status change, no event, no lock.
C9_OwnershipGate ==
    [][\A n \in CLUSTER_NODES :
          (pc[n] = "idle" /\ offset'[n] = offset[n] + 1
              /\ get_node_for_transaction(n, topic[offset[n] + 1]) # n)
              => /\ pc'[n] = "idle"
                 /\ calls'[n] = {}
                 /\ UNCHANGED <<accounts, applied, transactions, events, redis>>]_vars

\* C9 witness: a node that is not the owner has taken the message of a
\* PENDING transaction and dropped it.
C9_Witness ==
    \E n \in CLUSTER_NODES :
        /\ pc[n] = "idle"
        /\ log[n] = "not responsible"
        /\ offset[n] > 0
        /\ get_node_for_transaction(n, topic[offset[n]]) # n
        /\ transactions[topic[offset[n]]].status = "pending"

\* C10: a handler whose ledger call was refused because the account's lock
\* was held does not record the transaction as FAILED: it stays PENDING.
C10_ContentionKeepsPending ==
    [][\A n \in CLUSTER_NODES :
          (txn[n] # "" /\ response[n].detail = "lock" /\ Steps(n)
              /\ transactions[txn[n]].status = "pending")
              => transactions'[txn[n]].status = "pending"]_vars

\* C11: a delivery that is in its except block because the credit call raised
\* after the debit went through has issued the compensating credit to the
\* source account.
C11_ExceptionCompensated ==
    \A n \in CLUSTER_NODES :
        (pc[n] \in {"except_commit", "except_publish"}
            /\ response[n].detail = "exception" /\ "credit" \in calls[n])
            => "reversal" \in calls[n]

\* C12: the transaction_failed event of a delivery whose compensating credit
\* failed carries another reason than the one published for a credit failure
\* whose compensation succeeded.
C12_CompensationFailureDistinct ==
    [][\A n \in CLUSTER_NODES :
          (pc[n] = "credit_failed_publish" /\ pc'[n] = "idle"
              /\ response[n].status_code # 200 /\ Len(events') = Len(events) + 1)
              => events'[Len(events')].reason
                     # "Failed to credit destination account"]_vars

\* C13: no two executions of the guarded function on one resource key are in
\* progress at once.
C13_CriticalSectionExclusion ==
    \A c \in Callers : \A d \in Callers \ {c} :
        ~(wpc[c] = "func" /\ wpc[d] = "func" /\ lock_key[c] = lock_key[d])

\* C14: a caller whose SET NX finds the key bound makes no second attempt:
\* the wrapper raises at once, the guarded function is not entered, the store
\* is not written and the caller keeps no token to release with.
C14_ContentionRaises ==
    [][\A c \in Callers :
          (wpc[c] = "set" /\ wpc'[c] # "set"
              /\ ~redis_set_nx(redis, lock_key[c], lock_value[c], lock_timeout, now, c).ok)
              => /\ wpc'[c] = "idle"
                 /\ outcome'[c] = "contended"
                 /\ redis' = redis
                 /\ lock_value'[c] = NoValue
                 /\ current_value'[c] = current_value[c]]_vars

\* C14 witness: a caller has been refused and is out of the wrapper while the
\* other caller's binding of that key is still in the store.
C14_Witness ==
    \E c \in Callers :
        /\ wpc[c] = "idle"
        /\ outcome[c] = "contended"
        /\ Holder(lock_key[c]) \in Callers \ {c}

LastTime == (MaxTime \div TickStep) * TickStep

\* C16: the binding of a holder that has crashed does not outlive its TTL:
\* within lock_timeout of the crash (an instant the clock of the model still
\* reaches) the key is free, or bound by another caller.
C16_TTLLiveness ==
    \A c \in Callers :
        (wpc[c] = "crashed" /\ Holder(lock_key[c]) = c
            /\ now + lock_timeout <= LastTime)
            ~> (Holder(lock_key[c]) # c)

\* C16 witness: one caller has crashed holding a key, and after the TTL the
\* other caller has acquired the same key.
C16_Witness ==
    \E c \in Callers : \E d \in Callers \ {c} :
        /\ wpc[c] = "crashed"
        /\ lock_key[d] = lock_key[c]
        /\ wpc[d] = "func"
        /\ Holder(lock_key[c]) = d

\* C17: no account balance is ever below zero.
C17_BalancesNonNegative ==
    \A a \in Accounts : accounts[a].balance >= 0

\* C17 witness: a debit larger than the source balance has been asked for and
\* refused.
C17_Witness ==
    \E n \in CLUSTER_NODES :
        /\ txn[n] # ""
        /\ response[n].detail = "insufficient funds"
        /\ accounts[transactions[txn[n]].from_account_id].balance
               < transactions[txn[n]].amount

----------------------------------------------------------------------------
(* The hash ring's properties *)

\* the smallest of a non-empty set of ring positions
MinPoint(S) == CHOOSE x \in S : \A y \in S : x <= y

C19_FirstPointAtOrAfter ==
    (result.key # "" /\ DOMAIN hash_ring.ring # {})
        => LET hash_key == _hash(<<result.key>>)
               at_or_after == {p \in DOMAIN hash_ring.ring : p >= hash_key}
           IN  result.node = IF at_or_after # {}
                             THEN hash_ring.ring[MinPoint(at_or_after)]
                             ELSE hash_ring.ring[MinPoint(DOMAIN hash_ring.ring)]

\* C19 witness: a key whose hash lies after every position of a ring of
\* several nodes has been looked up and the first position's node returned.
C19_Witness ==
    /\ result.key # ""
    /\ Cardinality({hash_ring.ring[p] : p \in DOMAIN hash_ring.ring}) > 1
    /\ \A p \in DOMAIN hash_ring.ring : p < _hash(<<result.key>>)
    /\ result.node = hash_ring.ring[MinPoint(DOMAIN hash_ring.ring)]

\* C20: after add_node(n) every key whose owner changed is owned by n; after
\* remove_node(n) every key that n did not own has the owner it had.
C20_MinimalDisruption ==
    /\ last_op.op = "add" =>
          \A k \in Keys :
              get_node(hash_ring, <<k>>) # get_node(ring_before, <<k>>)
                  => get_node(hash_ring, <<k>>) = last_op.node
    /\ last_op.op = "remove" =>
          \A k \in Keys :
              get_node(ring_before, <<k>>) # last_op.node
                  => get_node(hash_ring, <<k>>) = get_node(ring_before, <<k>>)

\* C20 witness: a node has been removed from a ring of three; keys it owned
\* have another owner now and keys of the two other nodes are where they were.
C20_Witness ==
    /\ last_op.op = "remove"
    /\ Cardinality({ring_before.ring[p] : p \in DOMAIN ring_before.ring}) = 3
    /\ \E k \in Keys : /\ get_node(ring_before, <<k>>) = last_op.node
                       /\ get_node(hash_ring, <<k>>) # last_op.node
    /\ \A node \in RingNodes \ {last_op.node} :
          \E k \in Keys : /\ get_node(ring_before, <<k>>) = node
                          /\ get_node(hash_ring, <<k>>) = node

\* the nodes that own at least one point of a ring
Members(ch) == {ch.ring[p] : p \in DOMAIN ch.ring}

\* C21: get_node on a ring that holds no node (all of them removed) fails with
\* the empty-ring error and names no node, whatever the key.
C21_EmptyRingFails ==
    (result.key # "" /\ Members(hash_ring) = {})
        => (result.node = RingEmptyError /\ result.node \notin RingNodes)

\* a lookup answered on a ring emptied by remove_node
C21_Witness ==
    /\ result.key # ""
    /\ last_op.op = "remove"
    /\ DOMAIN hash_ring.ring = {}
    /\ hash_ring.sorted_keys = <<>>
    /\ result.node = RingEmptyError

\* C22: add_node(n) on a ring that already holds n changes nothing: the point
\* map, the sorted point list and the owner of every key are as before.
C22_AddNodeIdempotent ==
    (last_op.op = "add" /\ last_op.node \in Members(ring_before))
        => /\ hash_ring.ring = ring_before.ring
           /\ hash_ring.sorted_keys = ring_before.sorted_keys
           /\ \A k \in Keys : get_node(hash_ring, <<k>>) = get_node(ring_before, <<k>>)

\* an add_node of a node the ring held already, next to other nodes
C22_Witness ==
    /\ last_op.op = "add"
    /\ last_op.node \in Members(ring_before)
    /\ Cardinality(Members(ring_before)) >= 2
    /\ hash_ring = ring_before

\* C23: after remove_node(n) no point is mapped to n and every point of the
\* other nodes is in place with its owner; when n was absent nothing changes.
C23_RemoveNodeComplete ==
    last_op.op = "remove"
        => /\ last_op.node \notin Members(hash_ring)
           /\ \A p \in DOMAIN ring_before.ring :
                  ring_before.ring[p] # last_op.node
                      => (p \in DOMAIN hash_ring.ring
                          /\ hash_ring.ring[p] = ring_before.ring[p])
           /\ DOMAIN hash_ring.ring \subseteq DOMAIN ring_before.ring
           /\ hash_ring.sorted_keys = sorted(DOMAIN hash_ring.ring)
           /\ (last_op.node \notin Members(ring_before) => hash_ring = ring_before)

\* a remove_node of a present node that leaves other nodes on the ring
C23_Witness ==
    /\ last_op.op = "remove"
    /\ last_op.node \in Members(ring_before)
    /\ Members(hash_ring) = Members(ring_before) \ {last_op.node}
    /\ Members(hash_ring) # {}

\* C24: a ring of k distinct nodes holds k * replicas points, in the map and
\* in the sorted list; add_node of a new node adds replicas points and
\* remove_node of a present node takes replicas points away.
C24_RingSize ==
    /\ Cardinality(DOMAIN hash_ring.ring) = Cardinality(Members(hash_ring)) * replicas
    /\ Len(hash_ring.sorted_keys) = Cardinality(Members(hash_ring)) * replicas
    /\ (last_op.op = "add" /\ last_op.node \notin Members(ring_before))
           => Len(hash_ring.sorted_keys) = Len(ring_before.sorted_keys) + replicas
    /\ (last_op.op = "remove" /\ last_op.node \in Members(ring_before))
           => Len(hash_ring.sorted_keys) = Len(ring_before.sorted_keys) - replicas

\* a new node added to a ring of two nodes: three nodes, 3 * replicas points
C24_Witness ==
    /\ last_op.op = "add"
    /\ last_op.node \notin Members(ring_before)
    /\ Cardinality(Members(ring_before)) = 2
    /\ Cardinality(Members(hash_ring)) = 3
    /\ Len(hash_ring.sorted_keys) = 3 * replicas

\* C26: the record of a submission is committed before its message is
\* published: every message of the topic names a stored transaction, no
\* handler finds the transaction of a received message missing, and a record
\* whose message is not yet published (the one returned to the submitter) is
\* PENDING.
C26_CommitBeforePublish ==
    /\ \A i \in 1..Len(topic) : topic[i] \in DOMAIN transactions
    /\ \A n \in CLUSTER_NODES : log[n] # "not found"
    /\ \A n \in CLUSTER_NODES : pc[n] = "load" => txn[n] \in DOMAIN transactions
    /\ \A t \in DOMAIN transactions : ~InTopic(t) => transactions[t].status = "pending"

\* a node received the message of a submission and read its PENDING record
C26_Witness ==
    \E n \in CLUSTER_NODES :
        /\ pc[n] = "debit"
        /\ offset[n] > 0
        /\ topic[offset[n]] = txn[n]
        /\ txn[n] \in DOMAIN transactions
        /\ transactions[txn[n]].status = "pending"

\* C27: the transaction_failed event published after a debit that the ledger
\* refused for insufficient funds carries another reason than the one
\* published for the other debit failures.
C27_InsufficientFundsReason ==
    [][\A n \in CLUSTER_NODES :
          (pc[n] = "debit_failed_publish" /\ pc'[n] = "idle"
              /\ response[n].detail = "insufficient funds"
              /\ Len(events') = Len(events) + 1)
              => events'[Len(events')].reason # "Failed to debit source account"]_vars

\* C30: each message of the transactions topic is handed to the consumer of
\* one processing node only.
C30_SingleConsumerDelivery ==
    \A i \in 1..Len(topic) :
        Cardinality({n \in CLUSTER_NODES : offset[n] >= i}) <= 1

\* C25: a handler that has started on a message is not cut off by a shutdown:
\* when the process of a node ends after stop(), its handler is idle.
C25_ShutdownDrains ==
    [][\A n \in CLUSTER_NODES :
          (pc[n] # "exited" /\ pc'[n] = "exited") => pc[n] = "idle"]_vars

\* C28: stop() clears running and, once it has returned, close has been called
\* exactly once on every registered consumer and on the producer, whether or
\* not a close raised.
C28_StopClosesAll ==
    \A n \in CLUSTER_NODES :
        /\ kafka_client[n].stop_pc # "none" => ~kafka_client[n].running
        /\ \A t \in DOMAIN kafka_client[n].consumers : kafka_client[n].consumers[t] <= 1
        /\ kafka_client[n].producer.closes <= 1
        /\ kafka_client[n].stop_pc = "done"
              => /\ \A t \in DOMAIN kafka_client[n].consumers :
                        kafka_client[n].consumers[t] = 1
                 /\ kafka_client[n].producer.created
                        => kafka_client[n].producer.closes = 1

\* stop() has returned on a client with two consumers and a producer, and the
\* close of a consumer raised
C28_Witness ==
    \E n \in CLUSTER_NODES :
        /\ kafka_client[n].stop_pc = "done"
        /\ ~kafka_client[n].running
        /\ DOMAIN kafka_client[n].consumers = Topics
        /\ kafka_client[n].close_errors \cap Topics # {}
        /\ \A t \in Topics : kafka_client[n].consumers[t] = 1
        /\ kafka_client[n].producer.created
        /\ kafka_client[n].producer.closes = 1

\* C29 as stated: the value sent has metadata.source_node set to the local
\* node id, a value without metadata gets a metadata map, and every entry of
\* an existing metadata map is sent unchanged.
C29_MetadataKept ==
    \A n \in CLUSTER_NODES :
        LET value == kafka_client[n].sent.value
            sent == kafka_client[n].sent.sent
        IN  DOMAIN value # {}
                => /\ sent.metadata.source_node = n
                   /\ "metadata" \notin DOMAIN value
                         => sent.metadata = [source_node |-> n]
                   /\ "metadata" \in DOMAIN value
                         => \A k \in DOMAIN value.metadata :
                                sent.metadata[k] = value.metadata[k]

\* C29: the value sent has metadata.source_node set to the local node id, a
\* value without metadata gets a metadata map, and every entry of an existing
\* metadata map other than source_node is sent unchanged; nothing else of the
\* value changes.
C29_MetadataMerged ==
    \A n \in CLUSTER_NODES :
        LET value == kafka_client[n].sent.value
            sent == kafka_client[n].sent.sent
        IN  DOMAIN value # {}
                => /\ sent.metadata.source_node = n
                   /\ DOMAIN sent = DOMAIN value \cup {"metadata"}
                   /\ \A f \in DOMAIN value \ {"metadata"} : sent[f] = value[f]
                   /\ "metadata" \notin DOMAIN value
                         => sent.metadata = [source_node |-> n]
                   /\ "metadata" \in DOMAIN value
                         => /\ DOMAIN sent.metadata
                                   = DOMAIN value.metadata \cup {"source_node"}
                            /\ \A k \in DOMAIN value.metadata \ {"source_node"} :
                                   sent.metadata[k] = value.metadata[k]

\* a value whose metadata has an entry and names another source node was sent
C29_Witness ==
    \E n \in CLUSTER_NODES :
        LET value == kafka_client[n].sent.value
            sent == kafka_client[n].sent.sent
        IN  /\ DOMAIN value # {}
            /\ "metadata" \in DOMAIN value
            /\ DOMAIN value.metadata = {"existing_key", "source_node"}
            /\ value.metadata.source_node # n
            /\ sent.metadata = [existing_key |-> "existing_value", source_node |-> n]

\* C36: after any sequence of add_node and remove_node calls sorted_keys is
\* the strictly ascending list of the keys of the ring mapping: the same set,
\* no position twice, none that the mapping no longer has.
C36_SortedKeysMatchRing ==
    /\ {hash_ring.sorted_keys[i] : i \in 1..Len(hash_ring.sorted_keys)}
          = DOMAIN hash_ring.ring
    /\ Len(hash_ring.sorted_keys) = Cardinality(DOMAIN hash_ring.ring)
    /\ \A i \in 1..(Len(hash_ring.sorted_keys) - 1) :
          hash_ring.sorted_keys[i] < hash_ring.sorted_keys[i + 1]

\* a remove_node has left one node on the ring, its points in order
C36_Witness ==
    /\ last_op.op = "remove"
    /\ ring_before.ring # hash_ring.ring
    /\ Cardinality(Members(hash_ring)) = 1
    /\ Len(hash_ring.sorted_keys) = replicas
    /\ hash_ring.sorted_keys[1] < hash_ring.sorted_keys[Len(hash_ring.sorted_keys)]

\* C35: when the rings of all nodes have the same membership and every node
\* is a member, each key has exactly one responsible node:
\* is_responsible_for_key is true on the node get_node names and false on
\* every other node, and get_node names a member.
C35_SingleOwner ==
    ((\A n, m \in CLUSTER_NODES :
          Members(consistent_hash[n]) = Members(consistent_hash[m]))
      /\ (\A n \in CLUSTER_NODES : n \in Members(consistent_hash[n])))
        => \A k \in Keys : \A n \in CLUSTER_NODES :
              LET owner == get_node(consistent_hash[n], <<k>>)
              IN  /\ owner \in Members(consistent_hash[n])
                  /\ is_responsible_for_key(owner, k)
                  /\ \A m \in CLUSTER_NODES \ {owner} : ~is_responsible_for_key(m, k)
                  /\ Cardinality({m \in CLUSTER_NODES : is_responsible_for_key(m, k)}) = 1

\* with the same membership on both nodes, the message of a transaction was
\* taken by its owner and turned down by the other node
C35_Witness ==
    \E n, m \in CLUSTER_NODES :
        /\ n # m
        /\ Members(consistent_hash[n]) = CLUSTER_NODES
        /\ Members(consistent_hash[m]) = CLUSTER_NODES
        /\ pc[n] = "load"
        /\ is_responsible_for_key(n, txn[n])
        /\ log[m] = "not responsible"
        /\ offset[m] > 0
        /\ topic[offset[m]] = txn[n]

\* the positions of the terminal events of transaction t
TerminalEvents(t) ==
    {i \in 1..Len(events) :
        /\ events[i].transaction_id = t
        /\ events[i].event_type \in {"transaction_completed", "transaction_failed"}}

\* C32: at most one terminal event is ever published for a transaction, and
\* once no delivery of the transaction is under way its type agrees with the
\* stored status.
C32_OneTerminalEvent ==
    \A t \in DOMAIN transactions :
        /\ Cardinality(TerminalEvents(t)) <= 1
        /\ Processing(t) = {}
              => \A i \in TerminalEvents(t) :
                    events[i].event_type =
                        IF transactions[t].status = "completed"
                        THEN "transaction_completed" ELSE "transaction_failed"

\* the sum of the balances of a set of accounts
RECURSIVE SumOfBalances(_, _)
SumOfBalances(accts, S) ==
    IF S = {} THEN 0
    ELSE LET a == CHOOSE x \in S : TRUE
         IN  accts[a].balance + SumOfBalances(accts, S \ {a})

\* C33: when no handler is working on a transaction the sum of the balances
\* is the initial sum; a COMPLETED transaction has moved its amount from the
\* source to the destination and a FAILED one has left both balances alone.
C33_Conservation ==
    (\A n \in CLUSTER_NODES : pc[n] = "idle")
        => /\ SumOfBalances(accounts, Accounts) = SumOfBalances(InitialAccounts, Accounts)
           /\ \A t \in DOMAIN transactions :
                 LET row == transactions[t]
                     moved == IF row.status = "completed" THEN row.amount ELSE 0
                 IN  row.status \in {"completed", "failed"}
                        => /\ accounts[row.from_account_id].balance
                                 = InitialAccounts[row.from_account_id].balance - moved
                           /\ accounts[row.to_account_id].balance
                                 = InitialAccounts[row.to_account_id].balance + moved

\* C34: completed_at is set exactly when the status is COMPLETED.
C34_CompletedAtIffCompleted ==
    \A t \in DOMAIN transactions :
        transactions[t].completed_at <=> transactions[t].status = "completed"

\* C31: a PENDING transaction whose message has been handed to the handler of
\* its owner reaches status COMPLETED or FAILED, when the ledger calls return
\* and the consumer thread keeps running.
C31_ProcessingLiveness ==
    \A t \in Txns :
        (\E n \in CLUSTER_NODES :
            /\ pc[n] = "load"
            /\ txn[n] = t
            /\ is_responsible_for_key(n, t)
            /\ t \in DOMAIN transactions
            /\ transactions[t].status = "pending")
        ~> (t \in DOMAIN transactions /\ transactions[t].status \in {"completed", "failed"})

\* the owner's handler has finished a delivery it took while the row was
\* PENDING: the status is terminal
C31_Witness ==
    \E n \in CLUSTER_NODES :
        /\ pc[n] = "idle"
        /\ log[n] \in {"debit_failed_publish", "credit_failed_publish",
                       "completed_publish", "except_publish"}
        /\ offset[n] > 0
        /\ is_responsible_for_key(n, topic[offset[n]])
        /\ transactions[topic[offset[n]]].status \in {"completed", "failed"}

\* C38: an exception of the callback does not stop consumption: the thread is
\* alive after it (it ends only when running is cleared or when no new
\* consumer can be created after a consumer error), the consumer stands at
\* the next message, and a consumer passes no message to the callback twice,
\* so what it passes after a failed message is the message that follows it.
C38_CallbackErrorContained ==
    LET d == consumer_thread.delivered
    IN  /\ \A i, j \in 1..Len(d) :
              (i < j /\ d[i].consumer = d[j].consumer) => d[i].message < d[j].message
        /\ \A i \in 1..(Len(d) - 1) :
              (d[i].raised /\ d[i + 1].consumer = d[i].consumer)
                  => d[i + 1].message = d[i].message + 1
        /\ (/\ d # <<>>
            /\ d[Len(d)].raised
            /\ d[Len(d)].consumer = consumer_thread.consumer
            /\ consumer_thread.ended_by # "create_consumer"
            /\ kafka_client[ThreadNode].running)
              => /\ consumer_thread.alive
                 /\ consumer_thread.position = d[Len(d)].message
                 /\ consumer_thread.position < MaxMessages
                       => ENABLED (\E raises \in BOOLEAN : Deliver(raises))

\* the callback raised on a message and the same consumer passed the next
\* message to it afterwards
C38_Witness ==
    LET d == consumer_thread.delivered
    IN  \E i \in 1..(Len(d) - 1) :
            /\ d[i].raised
            /\ d[i + 1].consumer = d[i].consumer
            /\ d[i + 1].message = d[i].message + 1
            /\ consumer_thread.alive

\* C37: on a ring that does not hold n, add_node(n) followed by
\* remove_node(n) gives back the ring mapping and the owner of every key,
\* also when a replica point of n falls on the position of a point of
\* another node.
C37_RoundTripRestores ==
    (last_op.op = "add_remove" /\ last_op.node \notin Members(ring_before))
        => /\ hash_ring.ring = ring_before.ring
           /\ \A k \in Keys : get_node(hash_ring, <<k>>) = get_node(ring_before, <<k>>)

====
